---------------------------- MODULE Spec2Model ----------------------------
(***************************************************************************)
(* A model of the Game of Hog simulator (src/hog.py): the turn engine      *)
(* (roll_dice, free_bacon, take_turn), the game engine (select_dice,       *)
(* other, play), the strategies and winner.                                *)
(***************************************************************************)
EXTENDS Integers, Sequences, FiniteSets, TLC

(***************************************************************************)
(* Program constants.                                                      *)
(***************************************************************************)
\* GOAL_SCORE = 100 (hog.py line 6), the default goal of play.
GOAL_SCORE == 100

\* The literal 100 in take_turn's assertion (hog.py line 45).
TURN_SCORE_LIMIT == 100

\* The literal 10 in take_turn's assertion (hog.py line 44).
MAX_NUM_ROLLS == 10

\* Number of faces of the two standard dice sources of dice.py.
FOUR_SIDES == 4
SIX_SIDES == 6

(***************************************************************************)
(* Bounds of the model.                                                    *)
(***************************************************************************)
\* Largest roll count an arbitrary strategy chooses in a modelled game.
MaxRolls == 2
\* Longest script of a test dice in the turn-engine specification.
MaxScript == 2
\* Largest outcome in the script of a test dice.
MaxFace == 3
\* Opponent scores tried on take_turn go this far past TURN_SCORE_LIMIT.
OppOver == 1
\* Largest roll count chosen in the games checked for termination.
MaxFairRolls == 1
\* A short game, and a game whose goal is past GOAL_SCORE by this much.
LowGoal == 12
GoalOver == 4

VARIABLES
    \* play (hog.py lines 75-106)
    pc,              \* "loop", "turn", "done", "aborted", or "off"
    goal,            \* the goal parameter of play
    who,             \* which player is about to take a turn
    score,           \* the current player's score
    opponent_score,  \* the other player's score
    num_rolls,       \* play's local num_rolls
    dice,            \* play's local dice: "four_sided" or "six_sided"
    ret,             \* the pair play returned, <<>> before it returns
    slot,            \* reference game: slot[p] is player p's score
    \* one call of a turn-engine function or of a strategy
    call,            \* the call's arguments
    result           \* what the call did, [state |-> "pending"] before it

vars == <<pc, goal, who, score, opponent_score, num_rolls, dice, ret, slot,
          call, result>>

playVars == <<pc, goal, who, score, opponent_score, num_rolls, dice, ret, slot>>
callVars == <<call, result>>

Max(a, b) == IF a >= b THEN a ELSE b

(***************************************************************************)
(* Dice sources (dice.py, not part of the sources at hand).  A test dice   *)
(* replays its script cyclically; calls counts its invocations.            *)
(***************************************************************************)
make_test_dice(outcomes) == [script |-> outcomes, cursor |-> 0, calls |-> 0]

\* One invocation dice(): the outcome and the dice source afterwards.
call_dice(d) ==
    [outcome |-> d.script[d.cursor + 1],
     dice    |-> [d EXCEPT !.cursor = (d.cursor + 1) % Len(d.script),
                           !.calls  = d.calls + 1]]

\* The number of faces of a standard dice source.
sides(name) == IF name = "four_sided" THEN FOUR_SIDES ELSE SIX_SIDES

(***************************************************************************)
(* Turn engine.  A call either aborts on a failed assertion or returns a   *)
(* value, and leaves the dice source in a new state.                       *)
(***************************************************************************)
Aborted(d) == [state |-> "aborted", value |-> 0, dice |-> d]
Returned(v, d) == [state |-> "returned", value |-> v, dice |-> d]

\* The while loop of roll_dice (lines 25-30).
RECURSIVE roll_loop(_, _, _, _)
roll_loop(n, total, pig_out, d) ==
    IF n # 0
    THEN LET single_roll == call_dice(d)
         IN  roll_loop(n - 1, total + single_roll.outcome,
                       pig_out \/ single_roll.outcome = 1, single_roll.dice)
    ELSE [total |-> total, pig_out |-> pig_out, dice |-> d]

\* roll_dice returning the raw sum even after a 1.
roll_dice_raw_sum(n, d) ==
    IF ~(n > 0)
    THEN Aborted(d)
    ELSE Returned(roll_loop(n, 0, FALSE, d).total,
                  roll_loop(n, 0, FALSE, d).dice)

\* roll_dice leaving its loop at the first 1.
RECURSIVE roll_loop_short(_, _, _)
roll_loop_short(n, total, d) ==
    IF n # 0
    THEN LET single_roll == call_dice(d)
         IN  IF single_roll.outcome = 1
             THEN [total |-> total, pig_out |-> TRUE, dice |-> single_roll.dice]
             ELSE roll_loop_short(n - 1, total + single_roll.outcome,
                                  single_roll.dice)
    ELSE [total |-> total, pig_out |-> FALSE, dice |-> d]

roll_dice_short(n, d) ==
    IF ~(n > 0)
    THEN Aborted(d)
    ELSE LET end == roll_loop_short(n, 0, d)
         IN  IF end.pig_out THEN Returned(1, end.dice)
                            ELSE Returned(end.total, end.dice)

\* roll_dice (lines 14-33).
roll_dice(n, d) ==
    IF ~(n > 0)
    THEN Aborted(d)
    ELSE LET end == roll_loop(n, 0, FALSE, d)
         IN  IF end.pig_out THEN Returned(1, end.dice)
                            ELSE Returned(end.total, end.dice)

free_bacon_tens(s) == (s \div 10) + 1

\* free_bacon (lines 51-52).
free_bacon(s) == Max(s \div 10, s % 10) + 1

\* take_turn (lines 35-49).
take_turn(n, opp, d) ==
    IF ~(n >= 0) \/ ~(n <= MAX_NUM_ROLLS) \/ ~(opp < TURN_SCORE_LIMIT)
    THEN Aborted(d)
    ELSE IF n = 0 THEN Returned(free_bacon(opp), d)
                  ELSE roll_dice(n, d)

(***************************************************************************)
(* Specification SpecTurn: one call of roll_dice or take_turn on a test    *)
(* dice, with the arguments drawn in Init.                                 *)
(***************************************************************************)
Scripts == UNION {[1..len -> 1..MaxFace] : len \in 1..MaxScript}

PlayOff ==
    /\ pc = "off" /\ goal = 0 /\ who = 0 /\ score = 0 /\ opponent_score = 0
    /\ num_rolls = 0 /\ dice = "none" /\ ret = <<>> /\ slot = <<0, 0>>

InitTurn ==
    /\ PlayOff
    /\ \E fn \in {"roll_dice", "take_turn"} :
       \E n \in -1..(MAX_NUM_ROLLS + 1) :
       \E opp \in 0..(TURN_SCORE_LIMIT + OppOver) :
       \E script \in Scripts :
       \E cur \in 0..(MaxScript - 1) :
          /\ cur < Len(script)
          /\ fn = "roll_dice" => opp = 0
          /\ call = [fn |-> fn, num_rolls |-> n, opponent_score |-> opp,
                     dice |-> [make_test_dice(script) EXCEPT !.cursor = cur]]
    /\ result = [state |-> "pending"]

CallRollDice ==
    /\ result.state = "pending"
    /\ call.fn = "roll_dice"
    /\ result' = roll_dice(call.num_rolls, call.dice)
    /\ UNCHANGED <<call, playVars>>

CallTakeTurn ==
    /\ result.state = "pending"
    /\ call.fn = "take_turn"
    /\ result' = take_turn(call.num_rolls, call.opponent_score, call.dice)
    /\ UNCHANGED <<call, playVars>>

NextTurn == CallRollDice \/ CallTakeTurn

SpecTurn == InitTurn /\ [][NextTurn]_vars

(***************************************************************************)
(* Claims about the turn engine, checked under SpecTurn.                   *)
(***************************************************************************)
\* The outcome of the i-th invocation of the call's dice source.
Rolled(i) ==
    call.dice.script[((call.dice.cursor + i - 1) % Len(call.dice.script)) + 1]

RECURSIVE SumRolled(_)
SumRolled(k) == IF k = 0 THEN 0 ELSE Rolled(k) + SumRolled(k - 1)

\* C4: for num_rolls >= 1, roll_dice returns (it does not abort), and its
\* value is 1 if one of the num_rolls outcomes is 1 and the sum of the
\* num_rolls outcomes otherwise.
C4_PigOutOrSum ==
    result.state # "pending" /\ call.fn = "roll_dice" /\ call.num_rolls >= 1
      => /\ result.state = "returned"
         /\ result.value =
              IF \E i \in 1..call.num_rolls : Rolled(i) = 1
              THEN 1
              ELSE SumRolled(call.num_rolls)

\* roll_dice has returned 1 for several outcomes of which the last was 1
\* and the first was not.
C4_Witness ==
    /\ result.state = "returned" /\ call.fn = "roll_dice"
    /\ call.num_rolls >= 2
    /\ Rolled(1) > 1 /\ Rolled(call.num_rolls) = 1
    /\ result.value = 1

\* C5: for num_rolls >= 1, roll_dice has invoked the dice source exactly
\* num_rolls times when it returns, whatever the outcomes: the cursor of the
\* test dice has advanced by num_rolls positions (cyclically).
C5_ExactlyNumRollsCalls ==
    result.state # "pending" /\ call.fn = "roll_dice" /\ call.num_rolls >= 1
      => /\ result.state = "returned"
         /\ result.dice.calls = call.dice.calls + call.num_rolls
         /\ result.dice.cursor =
              (call.dice.cursor + call.num_rolls) % Len(call.dice.script)
         /\ result.dice.script = call.dice.script

\* roll_dice has returned after a first outcome of 1 followed by more
\* invocations, the cursor ending away from where it started.
C5_Witness ==
    /\ result.state = "returned" /\ call.fn = "roll_dice"
    /\ call.num_rolls >= 3
    /\ Rolled(1) = 1
    /\ result.dice.calls = call.num_rolls
    /\ result.dice.cursor # call.dice.cursor

\* C6: below the goal of 100, take_turn with 0 rolls returns
\* 1 + max(opponent_score // 10, opponent_score % 10) and leaves the dice
\* source as it was (no invocation); with 1 to 10 rolls it returns what
\* roll_dice returns.
C6_FreeBaconRollsNoDice ==
    /\ result.state # "pending" /\ call.fn = "take_turn"
       /\ call.num_rolls = 0 /\ call.opponent_score < GOAL_SCORE
         => /\ result.state = "returned"
            /\ result.value = 1 + Max(call.opponent_score \div 10,
                                      call.opponent_score % 10)
            /\ result.dice = call.dice
    /\ result.state # "pending" /\ call.fn = "take_turn"
       /\ call.num_rolls \in 1..MAX_NUM_ROLLS
       /\ call.opponent_score < GOAL_SCORE
         => result = roll_dice(call.num_rolls, call.dice)

\* take_turn has returned free bacon decided by the ones digit of the
\* opponent's score, the dice source untouched.
C6_Witness ==
    /\ result.state = "returned" /\ call.fn = "take_turn"
    /\ call.num_rolls = 0
    /\ call.opponent_score % 10 > call.opponent_score \div 10
    /\ result.value = 1 + (call.opponent_score % 10)
    /\ result.dice.calls = 0

(***************************************************************************)
(* Game engine.                                                            *)
(***************************************************************************)
select_dice_each(s, opp) ==
    IF opp % 7 = 0 /\ s % 7 = 0 THEN "four_sided" ELSE "six_sided"

select_dice(s, opp) ==
    IF (opp + s) % 7 = 0 THEN "four_sided" ELSE "six_sided"

other(w) == 1 - w

loop_continues_own_score(s, opp, g) == s < g

loop_continues_until_both(s, opp, g) == (IF s <= opp THEN s ELSE opp) < g

\* The loop condition of play (line 89).
loop_continues(s, opp, g) == Max(s, opp) < g

swap_if_double_one_way(s, opp) ==
    IF s = 2 * opp THEN <<opp, s>> ELSE <<s, opp>>

\* The doubling swap of play (lines 99-100): the pair (score, opponent_score).
swap_if_double(s, opp) ==
    IF s = 2 * opp \/ opp = 2 * s THEN <<opp, s>> ELSE <<s, opp>>

\* The perspective swap of play (line 101).
rotate(pair) == <<pair[2], pair[1]>>

play_return_unrotated(w, s, opp) == <<s, opp>>

\* What play returns (lines 104-106).
play_return(w, s, opp) == IF w = 0 THEN <<s, opp>> ELSE <<opp, s>>

\* winner (lines 193-200), on the pair play returned.
winner(scores) == IF scores[1] > scores[2] THEN 0 ELSE 1

\* The outcomes a standard dice source may produce in n invocations.
Outcomes(name, n) == [1..n -> 1..sides(name)]

\* The reference game, on fixed slots: player w scores delta.
RefAdd(sl, w, delta) == [sl EXCEPT ![w + 1] = @ + delta]

\* The reference game: the doubling swap on fixed slots.
RefSwap(sl) ==
    IF sl[1] = 2 * sl[2] \/ sl[2] = 2 * sl[1] THEN <<sl[2], sl[1]>> ELSE sl

Goals == {1, LowGoal, GOAL_SCORE, GOAL_SCORE + GoalOver}

CallOff == call = [fn |-> "none"] /\ result = [state |-> "none"]

Init ==
    /\ CallOff
    /\ goal \in Goals
    /\ who = 0
    /\ score = 0 /\ opponent_score = 0
    /\ num_rolls = 0 /\ dice = "none"
    /\ ret = <<>>
    /\ slot = <<0, 0>>
    /\ pc = "loop"

\* Lines 89-96: the loop test passes, the strategy of player who names a
\* roll count (any value in 0..limit), and the dice are selected.
ChooseUpTo(limit) ==
    /\ pc = "loop"
    /\ loop_continues(score, opponent_score, goal)
    /\ \E n \in 0..limit : num_rolls' = n
    /\ dice' = select_dice(score, opponent_score)
    /\ pc' = "turn"
    /\ UNCHANGED <<goal, who, score, opponent_score, ret, slot, callVars>>

ChooseRolls == ChooseUpTo(MaxRolls)

\* Line 97: take_turn on the selected dice; its value is added to score,
\* or its failed assertion ends play.
TakeTurn ==
    /\ pc = "turn"
    /\ \E outcomes \in Outcomes(dice, num_rolls) :
         LET turn == take_turn(num_rolls, opponent_score,
                               make_test_dice(outcomes))
         IN  IF turn.state = "aborted"
             THEN /\ pc' = "aborted"
                  /\ UNCHANGED <<score, slot>>
             ELSE /\ score' = score + turn.value
                  /\ slot' = RefAdd(slot, who, turn.value)
                  /\ pc' = "swap"
    /\ UNCHANGED <<goal, who, opponent_score, num_rolls, dice, ret, callVars>>

\* Lines 99-102: the doubling swap, the perspective swap and the change of
\* player.
SwapAndRotate ==
    /\ pc = "swap"
    /\ LET next == rotate(swap_if_double(score, opponent_score))
       IN  /\ score' = next[1]
           /\ opponent_score' = next[2]
    /\ who' = other(who)
    /\ slot' = RefSwap(slot)
    /\ pc' = "loop"
    /\ UNCHANGED <<goal, num_rolls, dice, ret, callVars>>

\* Lines 104-106: the loop test fails and play returns.
Return ==
    /\ pc = "loop"
    /\ ~loop_continues(score, opponent_score, goal)
    /\ ret' = play_return(who, score, opponent_score)
    /\ pc' = "done"
    /\ UNCHANGED <<goal, who, score, opponent_score, num_rolls, dice, slot,
                   callVars>>

Next == ChooseRolls \/ TakeTurn \/ SwapAndRotate \/ Return

Spec == Init /\ [][Next]_vars

(***************************************************************************)
(* Specification FairSpec: play(strategy0, strategy1) with the default     *)
(* goal.  play is sequential code, so a step that can be taken is taken.   *)
(***************************************************************************)
InitDefault == Init /\ goal = GOAL_SCORE

ChooseFewRolls == ChooseUpTo(MaxFairRolls)

NextDefault == ChooseFewRolls \/ TakeTurn \/ SwapAndRotate \/ Return

FairSpec == InitDefault /\ [][NextDefault]_vars /\ WF_vars(NextDefault)

(***************************************************************************)
(* Claims about play, checked under Spec (C1 under FairSpec).              *)
(***************************************************************************)
\* C1: with the default goal of 100, play terminates; every turn taken
\* started with both scores below the goal and raised the sum of the two
\* scores; and when play has returned, the larger final score is at least
\* the goal.
C1_PlayStopsAtGoal ==
    /\ <>(pc = "done")
    /\ [](pc = "turn" => score < goal /\ opponent_score < goal)
    /\ [][pc = "turn"
            => score' + opponent_score' > score + opponent_score]_vars
    /\ [](pc = "done" => Max(ret[1], ret[2]) >= goal)

\* A game with the default goal has returned, player 1 having reached the
\* goal by rolling dice.
C1_Witness ==
    /\ goal = GOAL_SCORE /\ pc = "done"
    /\ ret[2] >= GOAL_SCORE /\ ret[1] < GOAL_SCORE
    /\ num_rolls > 0

\* C2: the pair play returns is (player 0's score, player 1's score) of the
\* reference game on fixed slots, whoever took the last turn; and at every
\* loop test the rotating pair read through who is the reference pair.
C2_ReturnsFixedOrder ==
    /\ pc = "done" => ret = slot
    /\ pc = "loop" => play_return(who, score, opponent_score) = slot

\* play has returned with player 1 about to move (the rotating pair is
\* reversed), after a game in which the scores differ.
C2_Witness ==
    /\ pc = "done" /\ who = 1
    /\ ret = <<opponent_score, score>>
    /\ score # opponent_score

\* C3: in a turn, take_turn's value (at least 1) is added to the mover's
\* score and the other score is unchanged; then the two scores are exchanged
\* exactly when one is twice the other, and otherwise both are kept (the
\* mover's score becoming opponent_score by the perspective swap).
C3_SwapOnlyOnDouble ==
    [][/\ (pc = "turn" /\ pc' = "swap"
             => score' >= score + 1 /\ opponent_score' = opponent_score)
       /\ (pc = "swap"
             => LET double == score = 2 * opponent_score
                                \/ opponent_score = 2 * score
                    mover_after == opponent_score'
                    other_after == score'
                IN  /\ double => mover_after = opponent_score
                                   /\ other_after = score
                    /\ ~double => mover_after = score
                                    /\ other_after = opponent_score)]_vars

\* A turn has just ended in an exchange: the scores at the loop test are in
\* a doubling relation, which the exchange alone can leave there.
C3_Witness ==
    /\ pc = "loop" /\ score > 0
    /\ score = 2 * opponent_score \/ opponent_score = 2 * score

\* C7: when take_turn is about to be called, the dice selected are the
\* 4-sided ones exactly when the sum of the scores before the turn is a
\* multiple of 7, and the 6-sided ones otherwise; and the points of a turn
\* that rolls are at most num_rolls times the faces of those dice.
C7_DiceByPreTurnSum ==
    /\ [](pc = "turn"
            => /\ dice = "four_sided" <=> (score + opponent_score) % 7 = 0
               /\ dice = "six_sided" <=> (score + opponent_score) % 7 # 0)
    /\ [][pc = "turn" /\ pc' = "swap" /\ num_rolls > 0
            => score' - score <= num_rolls *
                 (IF (score + opponent_score) % 7 = 0 THEN FOUR_SIDES
                                                      ELSE SIX_SIDES)]_vars

\* A turn after the first is about to roll 4-sided dice.
C7_Witness ==
    /\ pc = "turn" /\ num_rolls > 0 /\ dice = "four_sided"
    /\ score + opponent_score > 0

\* C8: take_turn, as play calls it, aborts exactly when num_rolls is outside
\* [0,10] or opponent_score is at or past the goal of the game being played;
\* so no game whose strategies return values in [0,10] aborts.
C8_TakeTurnAbortsAtGoal ==
    /\ pc = "turn"
         => (take_turn(num_rolls, opponent_score,
                       make_test_dice(<<1>>)).state = "aborted"
               <=> (num_rolls \notin 0..MAX_NUM_ROLLS
                      \/ opponent_score >= goal))
    /\ pc # "aborted"

\* C10: when play returns, exactly one final score is at or above the goal
\* and the other is below it, so the scores differ and winner names the
\* player with the strictly larger score.
C10_OneWinner ==
    pc = "done"
      => /\ \/ ret[1] >= goal /\ ret[2] < goal
            \/ ret[2] >= goal /\ ret[1] < goal
         /\ ret[1] # ret[2]
         /\ ret[winner(ret) + 1] > ret[other(winner(ret)) + 1]

\* play has returned from a game with a goal other than the default, and
\* winner names player 1.
C10_Witness ==
    /\ pc = "done" /\ goal = LowGoal
    /\ winner(ret) = 1 /\ ret[2] > ret[1]

(***************************************************************************)
(* Strategies (lines 232-292).                                             *)
(***************************************************************************)
\* The defaults margin=8 and num_rolls=5 of bacon_strategy and
\* swap_strategy (lines 232 and 240).
DEFAULT_MARGIN == 8
DEFAULT_NUM_ROLLS == 5

bacon_strategy(s, opp, margin, n) ==
    IF free_bacon(opp) >= margin THEN 0 ELSE n

swap_strategy(s, opp, margin, n) ==
    LET bacon_point == free_bacon(opp)
    IN  IF (bacon_point + s) * 2 = opp THEN 0
        ELSE IF bacon_point + s = opp * 2 THEN n
        ELSE IF bacon_point >= margin THEN 0
        ELSE n

\* final_strategy rolling one die per two points it is behind.
final_strategy_by_deficit(s, opp) ==
    LET losing_score == opp - s
    IN  IF s > 90 THEN 0
        ELSE IF losing_score > 10 THEN losing_score \div 2
        ELSE IF losing_score = 0 THEN 4
        ELSE swap_strategy(s, opp, DEFAULT_MARGIN, DEFAULT_NUM_ROLLS)

final_strategy(s, opp) ==
    LET bacon_point  == free_bacon(opp)
        losing_score == opp - s
    IN  IF s > 90 THEN 0
        ELSE IF losing_score > 20 /\ (s + bacon_point) * 2 = opp THEN 0
        ELSE IF losing_score > 20 /\ (s + 1) * 2 = opp THEN 10
        ELSE IF losing_score > 20 /\ (s * 2 + 1) = opp THEN 10
        ELSE IF losing_score > 40 THEN 10
        ELSE IF losing_score > 20 THEN 8
        ELSE IF losing_score > 10 THEN 6
        ELSE IF losing_score = 0 THEN 4
        ELSE swap_strategy(s, opp, DEFAULT_MARGIN, DEFAULT_NUM_ROLLS)

(***************************************************************************)
(* Specification SpecStrategy: one call of a strategy, as play makes it,   *)
(* on a pair of scores below the default goal.                             *)
(***************************************************************************)
InitStrategy ==
    /\ PlayOff
    /\ \E fn \in {"bacon_strategy", "swap_strategy", "final_strategy"} :
       \E s \in 0..(GOAL_SCORE - 1) :
       \E opp \in 0..(GOAL_SCORE - 1) :
          call = [fn |-> fn, score |-> s, opponent_score |-> opp]
    /\ result = [state |-> "pending"]

CallBaconStrategy ==
    /\ result.state = "pending"
    /\ call.fn = "bacon_strategy"
    /\ result' = [state |-> "returned",
                  value |-> bacon_strategy(call.score, call.opponent_score,
                                           DEFAULT_MARGIN, DEFAULT_NUM_ROLLS)]
    /\ UNCHANGED <<call, playVars>>

CallSwapStrategy ==
    /\ result.state = "pending"
    /\ call.fn = "swap_strategy"
    /\ result' = [state |-> "returned",
                  value |-> swap_strategy(call.score, call.opponent_score,
                                          DEFAULT_MARGIN, DEFAULT_NUM_ROLLS)]
    /\ UNCHANGED <<call, playVars>>

CallFinalStrategy ==
    /\ result.state = "pending"
    /\ call.fn = "final_strategy"
    /\ result' = [state |-> "returned",
                  value |-> final_strategy(call.score, call.opponent_score)]
    /\ UNCHANGED <<call, playVars>>

NextStrategy == CallBaconStrategy \/ CallSwapStrategy \/ CallFinalStrategy

SpecStrategy == InitStrategy /\ [][NextStrategy]_vars

\* C9: on every pair of scores below 100, bacon_strategy, swap_strategy
\* (default margin and num_rolls) and final_strategy return a roll count in
\* [0,10], which take_turn accepts.
C9_RollCountInRange ==
    result.state = "returned"
      => /\ result.value \in 0..10
         /\ take_turn(result.value, call.opponent_score,
                      make_test_dice(<<1>>)).state = "returned"

\* final_strategy, far behind, has returned the largest roll count.
C9_Witness ==
    /\ result.state = "returned" /\ call.fn = "final_strategy"
    /\ call.opponent_score - call.score > 40
    /\ result.value = 10

=============================================================================
